---- MODULE Spec2Model ----
(***************************************************************************)
(* Model of the Excel Obligo report pipeline: data_logic.py (table         *)
(* location, filters, aggregation, week-over-week comparison, sheet        *)
(* writing) and app.py (the main() run that chains them).                  *)
(*                                                                         *)
(* Cells are tagged records, since a sheet holds text, dates and empty     *)
(* cells side by side:                                                     *)
(*   Str(s)  a text cell            NaN  an empty cell (pandas NaN)        *)
(*   Ts(d)   a date cell, day d     NaT  pandas' not-a-time                *)
(* Python's 0-based row positions are 1-based here.                        *)
(***************************************************************************)
EXTENDS Integers, Sequences, FiniteSets, TLC

VARIABLES
    pc,                 \* position in the procedure being run
    sheet_data,         \* find_table...: the raw grid read with header=None
    required_columns,   \* find_table...: the required column names
    table,              \* find_table...: the value returned
    df,                 \* apply_filters: the table passed in (the caller's object)
    df_before,          \* apply_filters: the value df had when it was passed in
    apply_w_filter,     \* apply_filters: the exclusion flag
    filtered_df,        \* the filtered table
    refiltered_df,      \* apply_filters(filtered_df, apply_w_filter)
    aggregated_df,      \* create_aggregated_data(filtered_df)
    combined_prev_df,   \* the previous week's filtered rows
    comparison_df,      \* compare_tasks_grouped_by_name(filtered_df, combined_prev_df)
    combined_df,        \* process_filtered_data: the combined table (everything_df)
    groups_dict,        \* process_filtered_data: name -> group, as a sequence of pairs
    download_everything, download_per_name, download_aggregated, download_comparison,
    combined_excel,     \* create_combined_excel_file: the sheets written, in order
    selected_cols,      \* main: the columns the user ticked
    compare_files,      \* main: the "Vergelijk met vorige week" checkbox
    previous_files,     \* main: the previous-week files uploaded
    messages,           \* main: what st.error / st.warning / st.success reported
    download_offered,   \* main: st.download_button was rendered
    trail               \* main: the steps of the run completed so far

locateVars == <<sheet_data, required_columns, table>>
filterVars == <<df, df_before, apply_w_filter, filtered_df, refiltered_df>>
reportVars == <<aggregated_df, combined_prev_df, comparison_df>>
excelVars == <<combined_df, groups_dict, download_everything, download_per_name,
               download_aggregated, download_comparison, combined_excel>>
mainVars == <<selected_cols, compare_files, previous_files, messages, download_offered,
              trail>>
vars == <<pc, locateVars, filterVars, reportVars, excelVars, mainVars>>

\* Values of the variables a specification does not use.
LocateIdle == sheet_data = <<>> /\ required_columns = {} /\ table = [none |-> TRUE]
FilterIdle ==
    /\ df = [none |-> TRUE] /\ df_before = [none |-> TRUE] /\ apply_w_filter = FALSE
    /\ filtered_df = [none |-> TRUE] /\ refiltered_df = [none |-> TRUE]
ReportIdle ==
    /\ aggregated_df = [none |-> TRUE] /\ combined_prev_df = [none |-> TRUE]
    /\ comparison_df = [none |-> TRUE]
ExcelIdle ==
    /\ combined_df = [none |-> TRUE] /\ groups_dict = [none |-> TRUE]
    /\ download_everything = FALSE /\ download_per_name = FALSE
    /\ download_aggregated = FALSE /\ download_comparison = FALSE
    /\ combined_excel = [none |-> TRUE]
MainIdle ==
    /\ selected_cols = <<>> /\ compare_files = FALSE /\ previous_files = <<>>
    /\ messages = {} /\ download_offered = FALSE /\ trail = <<>>

(***************************************************************************)
(* Cell values                                                             *)
(***************************************************************************)
Str(s) == [t |-> "str", s |-> s, d |-> 0]
Ts(d) == [t |-> "ts", s |-> "", d |-> d]
NaN == [t |-> "nan", s |-> "", d |-> 0]
NaT == [t |-> "nat", s |-> "", d |-> 0]
Num(n) == [t |-> "num", s |-> "", d |-> n]
None == [none |-> TRUE]

IsNull(c) == c.t \in {"nan", "nat"}
IsStr(c) == c.t = "str"

Range(f) == {f[i] : i \in DOMAIN f}

(***************************************************************************)
(* find_table_starting_from_columns                                        *)
(***************************************************************************)

\* pd.read_excel(..., header=row_index): the header row's cells become the
\* column labels (an empty header cell is labelled "Unnamed: <position>", a
\* repeated label gets ".<n>" appended), the rows below become the body with
\* the default index 0, 1, 2, ...
ColumnLabel(header, i) ==
    LET c == header[i]
        raw == IF IsNull(c) THEN "Unnamed: " \o ToString(i - 1) ELSE c.s
        seen == Cardinality({j \in 1..(i - 1) : header[j] = c})
    IN IF IsNull(c) \/ seen = 0 THEN raw ELSE raw \o "." \o ToString(seen)

ReadExcel(grid, row_index) ==
    [columns |-> [i \in 1..Len(grid[row_index]) |-> ColumnLabel(grid[row_index], i)],
     index |-> [i \in 1..(Len(grid) - row_index) |-> i - 1],
     rows |-> SubSeq(grid, row_index + 1, Len(grid))]

\* line 10: all(col in sheet_data.iloc[row_index, :].values for col in required_columns)
RowHasAll(row, required) == \A col \in required : Str(col) \in Range(row)

\* lines 9-13: the scan from the top row down.
RECURSIVE ScanRows(_, _, _)
ScanRows(grid, required, row_index) ==
    IF row_index > Len(grid) THEN None
    ELSE IF RowHasAll(grid[row_index], required) THEN ReadExcel(grid, row_index)
    ELSE ScanRows(grid, required, row_index + 1)

\* The scan run from the last row upwards.
RECURSIVE ScanRowsUp(_, _, _)
ScanRowsUp(grid, required, row_index) ==
    IF row_index < 1 THEN None
    ELSE IF RowHasAll(grid[row_index], required) THEN ReadExcel(grid, row_index)
    ELSE ScanRowsUp(grid, required, row_index - 1)

find_table_bottom_up(grid, required) == ScanRowsUp(grid, required, Len(grid))

\* lines 7-13
find_table_starting_from_columns(grid, required) == ScanRows(grid, required, 1)

(***************************************************************************)
(* Specification SpecLocate: find_table_starting_from_columns applied to   *)
(* every grid of at most MaxGridRows rows over GridCells.                  *)
(***************************************************************************)
MaxGridRows == 3

GridCells == {Str("Naam"), Str("Status"), Str("Naam "), NaN}
GridRows == GridCells \X GridCells
RequiredPool == {"Naam", "Status"}

Grids == UNION {[1..n -> GridRows] : n \in 0..MaxGridRows}

InitLocate ==
    /\ pc = "locate"
    /\ sheet_data \in Grids
    /\ required_columns \in SUBSET RequiredPool
    /\ table = None
    /\ FilterIdle /\ ReportIdle /\ ExcelIdle /\ MainIdle

Locate ==
    /\ pc = "locate"
    /\ table' = find_table_starting_from_columns(sheet_data, required_columns)
    /\ pc' = "located"
    /\ UNCHANGED <<sheet_data, required_columns, filterVars, reportVars, excelVars, mainVars>>

NextLocate == Locate

SpecLocate == InitLocate /\ [][NextLocate]_vars

\* The rows of the grid that contain every required column name.
Qualifying == {i \in 1..Len(sheet_data) : RowHasAll(sheet_data[i], required_columns)}

\* C1: the table returned is the one whose header is the topmost row holding
\* every required name as an exact cell value, and None is returned exactly
\* when no row of the grid holds them all.
C1_TopmostHeader ==
    pc = "located" =>
        /\ (table = None) <=> (Qualifying = {})
        /\ Qualifying # {} =>
              \E m \in Qualifying :
                  /\ \A i \in Qualifying : m <= i
                  /\ table = ReadExcel(sheet_data, m)

RowHasAny(row, required) == \E col \in required : Str(col) \in Range(row)

\* A decoy row holding only some of the names lies above two qualifying rows.
C1_Witness ==
    /\ pc = "located"
    /\ required_columns = {"Naam", "Status"}
    /\ Cardinality(Qualifying) >= 2
    /\ 1 \notin Qualifying
    /\ RowHasAny(sheet_data[1], required_columns)
    /\ table # None

(***************************************************************************)
(* Tables (DataFrames): column labels, index labels (row identity) and     *)
(* rows of cells aligned to the columns.                                   *)
(***************************************************************************)
HasCol(t, name) == \E i \in 1..Len(t.columns) : t.columns[i] = name

\* df[name] takes the column with that label (the first, labels being unique
\* in every table built here).
ColIndex(t, name) ==
    CHOOSE i \in 1..Len(t.columns) :
        t.columns[i] = name /\ \A j \in 1..(i - 1) : t.columns[j] # name

Cell(t, r, name) == t.rows[r][ColIndex(t, name)]

\* The same selection followed by reset_index(drop=True).
SelectRowsReset(t, keep) ==
    LET pos == SelectSeq([i \in 1..Len(t.rows) |-> i], LAMBDA i : i \in keep)
    IN [columns |-> t.columns,
        index |-> [j \in 1..Len(pos) |-> j - 1],
        rows |-> [j \in 1..Len(pos) |-> t.rows[pos[j]]]]

\* df[mask]: the rows at the positions in keep, in order, index labels kept.
SelectRows(t, keep) ==
    LET pos == SelectSeq([i \in 1..Len(t.rows) |-> i], LAMBDA i : i \in keep)
    IN [columns |-> t.columns,
        index |-> [j \in 1..Len(pos) |-> t.index[pos[j]]],
        rows |-> [j \in 1..Len(pos) |-> t.rows[pos[j]]]]

(***************************************************************************)
(* apply_filters                                                           *)
(***************************************************************************)
Digits == {"0", "1", "2", "3", "4", "5", "6", "7", "8", "9"}
DigitValue == [c \in Digits |->
    CASE c = "0" -> 0 [] c = "1" -> 1 [] c = "2" -> 2 [] c = "3" -> 3 [] c = "4" -> 4
      [] c = "5" -> 5 [] c = "6" -> 6 [] c = "7" -> 7 [] c = "8" -> 8 [] c = "9" -> 9]

CharAt(s, i) == SubSeq(s, i, i)

\* Series.str.contains(sub) for a literal sub: a substring test.
Contains(s, sub) ==
    \E i \in 1..(Len(s) - Len(sub) + 1) : SubSeq(s, i, i + Len(sub) - 1) = sub

\* Days are counted within one month: the text "2024-01-0d" is day d. Any
\* other text is not a date.
IsDateText(s) ==
    /\ Len(s) = 10
    /\ SubSeq(s, 1, 9) = "2024-01-0"
    /\ CharAt(s, 10) \in Digits

\* line 16: pd.to_datetime(..., errors="coerce") on one cell.
ToDatetime(c) ==
    CASE c.t = "ts" -> c
      [] c.t = "str" -> IF IsDateText(c.s) THEN Ts(DigitValue[CharAt(c.s, 10)]) ELSE NaT
      [] OTHER -> NaT

\* line 17: today (the day on which the run takes place).
Today == 5

\* line 16: df["Leverdatum"] = pd.to_datetime(df["Leverdatum"], errors="coerce")
\* assigns into the DataFrame object the caller passed.
ConvertLeverdatum(t) ==
    LET k == ColIndex(t, "Leverdatum")
    IN [t EXCEPT !.rows =
          [r \in 1..Len(t.rows) |-> [t.rows[r] EXCEPT ![k] = ToDatetime(t.rows[r][k])]]]

\* line 19: df["Verantw. Werkplek"].str.contains("VKS", na=False)
WerkplekOk(c) == IsStr(c) /\ Contains(c.s, "VKS")

\* line 20: df["Status"].isin(["VRIJ", "OPEN"])
StatusOk(c) == c \in {Str("VRIJ"), Str("OPEN")}

\* line 21: df["Leverdatum"] <= today (NaT compares False)
LeverdatumOk(c) == c.t = "ts" /\ c.d <= Today

\* line 24: str.contains(r"\d+w$", na=False): a digit followed by "w" at the
\* end of the text ("$" also matches before one final newline).
MatchesDigitsW(c) ==
    /\ IsStr(c)
    /\ LET n == IF Len(c.s) > 0 /\ CharAt(c.s, Len(c.s)) = "\n"
                THEN Len(c.s) - 1 ELSE Len(c.s)
       IN n >= 2 /\ CharAt(c.s, n) = "w" /\ CharAt(c.s, n - 1) \in Digits

\* lines 18-25 on the converted table.
FilterRows(t, flag) ==
    SelectRows(t,
        {r \in 1..Len(t.rows) :
            /\ WerkplekOk(Cell(t, r, "Verantw. Werkplek"))
            /\ StatusOk(Cell(t, r, "Status"))
            /\ LeverdatumOk(Cell(t, r, "Leverdatum"))
            /\ (flag => ~MatchesDigitsW(Cell(t, r, "Omschrijving middel")))})

\* lines 19 and 24: Series.str raises AttributeError ("Can only use .str
\* accessor with string values!") on a column that is not of text dtype. A
\* column read from a sheet is float64 when it has cells and all are empty;
\* a table without rows has text (object) columns.
StrAccessorRaises(t, name) ==
    /\ Len(t.rows) > 0
    /\ \A r \in 1..Len(t.rows) : Cell(t, r, name).t = "nan"

\* apply_filters(t, flag) on a table read from a sheet ends in AttributeError
\* (at line 19, or at line 24 when the flag is set).
FiltersRaise(t, flag) ==
    \/ StrAccessorRaises(t, "Verantw. Werkplek")
    \/ flag /\ StrAccessorRaises(t, "Omschrijving middel")

\* The value apply_filters returns when nothing is raised.
apply_filters(t, flag) == FilterRows(ConvertLeverdatum(t), flag)

(***************************************************************************)
(* Specification SpecFilter: apply_filters applied to every table of at    *)
(* most MaxFilterRows rows, and then to its own result.                    *)
(***************************************************************************)
MaxFilterRows == 2

FilterColumns == <<"Verantw. Werkplek", "Status", "Leverdatum", "Omschrijving middel">>
WerkplekCells == {Str("00VKS1"), Str("WPL"), NaN}
StatusCells == {Str("OPEN"), Str("TECO")}
LeverdatumCells == {Ts(Today), Ts(Today + 1), Str("2024-01-04"), Str("n.v.t.")}
OmschrijvingCells == {Str("12w"), Str("12w-extra"), NaN}
FilterRowPool == WerkplekCells \X StatusCells \X LeverdatumCells \X OmschrijvingCells

FilterTables ==
    UNION {[columns : {FilterColumns},
            index : {[i \in 1..n |-> i - 1]},
            rows : [1..n -> FilterRowPool]] : n \in 0..MaxFilterRows}

InitFilter ==
    /\ pc = "filter"
    /\ df \in FilterTables
    /\ df_before = df
    /\ apply_w_filter \in BOOLEAN
    /\ filtered_df = None
    /\ refiltered_df = None
    /\ LocateIdle /\ ReportIdle /\ ExcelIdle /\ MainIdle

\* filtered_df = apply_filters(df, apply_w_filter)
ApplyFilters ==
    /\ pc = "filter"
    /\ ~FiltersRaise(df, apply_w_filter)
    /\ df' = ConvertLeverdatum(df)
    /\ filtered_df' = apply_filters(df, apply_w_filter)
    /\ pc' = "filtered"
    /\ UNCHANGED <<df_before, apply_w_filter, refiltered_df, locateVars, reportVars, excelVars, mainVars>>

\* The same call ending in AttributeError, after line 16 has assigned.
ApplyFiltersRaises ==
    /\ pc = "filter"
    /\ FiltersRaise(df, apply_w_filter)
    /\ df' = ConvertLeverdatum(df)
    /\ pc' = "AttributeError"
    /\ UNCHANGED <<df_before, apply_w_filter, filtered_df, refiltered_df, locateVars,
                   reportVars, excelVars, mainVars>>

\* refiltered_df = apply_filters(filtered_df, apply_w_filter). The columns of
\* filtered_df have the dtypes of df's, with which the first call did not
\* raise.
ApplyFiltersAgain ==
    /\ pc = "filtered"
    /\ filtered_df' = ConvertLeverdatum(filtered_df)
    /\ refiltered_df' = apply_filters(filtered_df, apply_w_filter)
    /\ pc' = "refiltered"
    /\ UNCHANGED <<df, df_before, apply_w_filter, locateVars, reportVars, excelVars, mainVars>>

NextFilter == ApplyFilters \/ ApplyFiltersRaises \/ ApplyFiltersAgain

SpecFilter == InitFilter /\ [][NextFilter]_vars

\* The positions of t's rows that carry index label k.
RowsLabelled(t, k) == {r \in 1..Len(t.index) : t.index[r] = k}

\* C2: the rows of apply_filters(x, flag) are rows of x by row identity (each
\* index label of the result labels one row of x, that row has the same
\* cells, no label occurs twice, the order of x is kept), and applying the
\* filters to the result returns the result.
C2_SubsetIdempotent ==
    /\ pc \in {"filtered", "refiltered"} =>
          /\ \A j \in 1..Len(filtered_df.index) :
                /\ Cardinality(RowsLabelled(filtered_df, filtered_df.index[j])) = 1
                /\ \E r \in RowsLabelled(df, filtered_df.index[j]) :
                      filtered_df.rows[j] = df.rows[r]
          /\ \A i, j \in 1..Len(filtered_df.index) :
                i < j => filtered_df.index[i] < filtered_df.index[j]
    /\ pc = "refiltered" => refiltered_df = filtered_df

\* A two-row table whose first row is filtered out and whose second is kept,
\* filtered a second time.
C2_Witness ==
    /\ pc = "refiltered"
    /\ Len(df.rows) = 2
    /\ filtered_df.index = <<1>>
    /\ apply_w_filter

\* Two cells hold the same value (two missing values count as the same).
SameCell(a, b) == a = b \/ (IsNull(a) /\ IsNull(b))

\* C3: apply_filters does not mutate its input: after the call every cell of
\* the table passed in has the value it had before the call.
C3_InputUnchanged ==
    pc = "filtered" =>
        /\ df.columns = df_before.columns
        /\ df.index = df_before.index
        /\ \A r \in 1..Len(df.rows) : \A k \in 1..Len(df.columns) :
              SameCell(df.rows[r][k], df_before.rows[r][k])

(***************************************************************************)
(* create_aggregated_data                                                  *)
(***************************************************************************)

\* Python orders str values by code point. CodeOrder lists the characters
\* that occur in the names of this model in that order.
CodeOrder == " ABCDEFGHIJKLMNOPQRSTUVWXYZabcdefghijklmnopqrstuvwxyz"
CharRank(c) == CHOOSE i \in 1..Len(CodeOrder) : CharAt(CodeOrder, i) = c

\* a < b for two str values.
StrLess(a, b) ==
    \E k \in 1..Len(b) :
        /\ k - 1 <= Len(a)
        /\ SubSeq(a, 1, k - 1) = SubSeq(b, 1, k - 1)
        /\ \/ k > Len(a)
           \/ CharRank(CharAt(a, k)) < CharRank(CharAt(b, k))

\* The distinct values S in ascending order.
RECURSIVE SortedSeq(_)
SortedSeq(S) ==
    IF S = {} THEN <<>>
    ELSE LET m == CHOOSE x \in S : \A y \in S \ {x} : StrLess(x, y)
         IN <<m>> \o SortedSeq(S \ {m})

\* The distinct values of a sequence in order of first appearance.
FirstAppearance(q) ==
    LET firsts == SelectSeq([i \in 1..Len(q) |-> i],
                            LAMBDA i : \A j \in 1..(i - 1) : q[j] # q[i])
    IN [k \in 1..Len(firsts) |-> q[firsts[k]]]

\* The non-missing text values of column name, row by row.
TextValues(t, name) ==
    LET rs == SelectSeq([r \in 1..Len(t.rows) |-> r],
                        LAMBDA r : IsStr(Cell(t, r, name)))
    IN [j \in 1..Len(rs) |-> Cell(t, rs[j], name).s]

\* The group keys of df.groupby(name, sort=False): first appearance.
GroupKeysUnsorted(t, name) == FirstAppearance(TextValues(t, name))

\* The group keys of df.groupby(name): rows whose key is missing belong to no
\* group (dropna=True), and the keys are sorted (sort=True).
GroupKeys(t, name) == SortedSeq(Range(TextValues(t, name)))

\* The positions of the rows of group key.
GroupRows(t, name, key) == {r \in 1..Len(t.rows) : Cell(t, r, name) = Str(key)}

\* line 41: filtered_df.groupby("Naam").size().reset_index(name="Aantal Taken")
create_aggregated_data(t) ==
    LET keys == GroupKeys(t, "Naam")
    IN [columns |-> <<"Naam", "Aantal Taken">>,
        index |-> [i \in 1..Len(keys) |-> i - 1],
        rows |-> [i \in 1..Len(keys) |->
                    <<Str(keys[i]), Num(Cardinality(GroupRows(t, "Naam", keys[i])))>>]]

(***************************************************************************)
(* Specification SpecAgg: create_aggregated_data applied to every filtered *)
(* table of at most MaxAggRows rows.                                       *)
(***************************************************************************)
MaxAggRows == 3

AggColumns == <<"Naam", "OH-order">>
NaamCells == {Str("Bob"), Str("Al"), Str("Alex"), NaN}
AggRowPool == NaamCells \X {Str("4500"), NaN}

AggTables ==
    UNION {[columns : {AggColumns},
            index : {[i \in 1..n |-> i - 1]},
            rows : [1..n -> AggRowPool]] : n \in 0..MaxAggRows}

InitAgg ==
    /\ pc = "aggregate"
    /\ filtered_df \in AggTables
    /\ aggregated_df = None
    /\ df = None /\ df_before = None /\ apply_w_filter = FALSE /\ refiltered_df = None
    /\ combined_prev_df = None /\ comparison_df = None
    /\ LocateIdle /\ ExcelIdle /\ MainIdle

\* aggregated_df = create_aggregated_data(filtered_df)
Aggregate ==
    /\ pc = "aggregate"
    /\ aggregated_df' = create_aggregated_data(filtered_df)
    /\ pc' = "aggregated"
    /\ UNCHANGED <<locateVars, filterVars, combined_prev_df, comparison_df, excelVars, mainVars>>

NextAgg == Aggregate

SpecAgg == InitAgg /\ [][NextAgg]_vars

RECURSIVE SumCounts(_)
SumCounts(rows) ==
    IF rows = <<>> THEN 0 ELSE rows[1][2].d + SumCounts(Tail(rows))

\* C4: the "Aantal Taken" counts add up to the number of rows of the
\* filtered table, also when rows have an empty or missing "Naam".
C4_CountsSumToRows ==
    pc = "aggregated" => SumCounts(aggregated_df.rows) = Len(filtered_df.rows)

\* One row per distinct assignee of the filtered table, each with the number
\* of rows of that assignee.
OneRowPerAssignee ==
    /\ \A i, j \in 1..Len(aggregated_df.rows) :
          aggregated_df.rows[i][1] = aggregated_df.rows[j][1] => i = j
    /\ {aggregated_df.rows[i][1] : i \in 1..Len(aggregated_df.rows)}
          = {c \in {Cell(filtered_df, r, "Naam") : r \in 1..Len(filtered_df.rows)} : IsStr(c)}
    /\ \A i \in 1..Len(aggregated_df.rows) :
          aggregated_df.rows[i][2]
             = Num(Cardinality({r \in 1..Len(filtered_df.rows) :
                      Cell(filtered_df, r, "Naam") = aggregated_df.rows[i][1]}))

\* The position of the first row of the filtered table with assignee cell c.
FirstRowOf(c) ==
    CHOOSE r \in 1..Len(filtered_df.rows) :
        /\ Cell(filtered_df, r, "Naam") = c
        /\ \A q \in 1..(r - 1) : Cell(filtered_df, q, "Naam") # c

\* C9 as stated: one row per distinct assignee with its row count, the rows
\* in order of first appearance of the assignee in the source table.
C9_FirstAppearanceOrder ==
    pc = "aggregated" =>
        /\ OneRowPerAssignee
        /\ \A i, j \in 1..Len(aggregated_df.rows) :
              i < j => FirstRowOf(aggregated_df.rows[i][1]) < FirstRowOf(aggregated_df.rows[j][1])

\* C9 as amended: one row per distinct (non-missing) assignee with its row
\* count, the rows in ascending order of the assignee name.
C9_SortedByName ==
    pc = "aggregated" =>
        /\ OneRowPerAssignee
        /\ \A i, j \in 1..Len(aggregated_df.rows) :
              i < j => StrLess(aggregated_df.rows[i][1].s, aggregated_df.rows[j][1].s)

\* A table in which the assignees first appear in an order that is not the
\* sorted one, one of them on two rows.
C9_Witness ==
    /\ pc = "aggregated"
    /\ Len(filtered_df.rows) = 3
    /\ Cell(filtered_df, 1, "Naam") = Str("Bob")
    /\ Cell(filtered_df, 2, "Naam") = Str("Al")
    /\ Cell(filtered_df, 3, "Naam") = Str("Bob")
    /\ aggregated_df.rows = <<<<Str("Al"), Num(1)>>, <<Str("Bob"), Num(2)>>>>

(***************************************************************************)
(* compare_tasks_grouped_by_name                                           *)
(***************************************************************************)
Dec1(tenths) == [t |-> "dec1", s |-> "", d |-> tenths]

\* lines 54-56: the first column of current_df whose label contains
\* "Obligo extern formaa", else "OH-order".
ObCol(current) ==
    LET hits == {i \in 1..Len(current.columns) :
                    Contains(current.columns[i], "Obligo extern formaa")}
    IN IF hits = {} THEN "OH-order"
       ELSE current.columns[CHOOSE i \in hits : \A j \in hits : i <= j]

\* line 58: pd.unique(pd.concat([current_df["Naam"], previous_df["Naam"]])):
\* the distinct cells in order of first appearance, a missing value included.
NaamColumn(t) == [r \in 1..Len(t.rows) |-> Cell(t, r, "Naam")]
AllNames(current, previous) == FirstAppearance(NaamColumn(current) \o NaamColumn(previous))

\* lines 62-65: df[df["Naam"] == name][ob_col].dropna().astype(str) as a set.
\* A missing name equals no cell (NaN == NaN is False). Identifier cells are
\* text, which astype(str) leaves as it is.
TaskSet(t, name, ob_col) ==
    {Cell(t, r, ob_col).s :
        r \in {q \in 1..Len(t.rows) :
                 /\ ~IsNull(name)
                 /\ Cell(t, q, "Naam") = name
                 /\ ~IsNull(Cell(t, q, ob_col))}}

\* line 67, and the same with the difference forgotten.
NewTasksAll(current_set, prev_set) == Cardinality(current_set)
NewTasks(current_set, prev_set) == Cardinality(current_set \ prev_set)

\* line 68
OldTasks(current_set, prev_set) == Cardinality(current_set \cap prev_set)

\* line 70
EditedTasks(current_set, prev_set) == Cardinality(prev_set \ current_set)

\* round(x, 1) for x = num / den * 100 >= 0, in tenths; a tie goes to the even
\* tenth.
RoundTenths(num, den) ==
    LET q == (num * 1000) \div den
        r == (num * 1000) % den
    IN IF 2 * r < den THEN q
       ELSE IF 2 * r > den THEN q + 1
       ELSE IF q % 2 = 0 THEN q ELSE q + 1

\* line 71 with "else 100" in place of "else 0".
PercentageElse100(edited_tasks, previous_total) ==
    IF previous_total > 0 THEN RoundTenths(edited_tasks, previous_total) ELSE 1000

\* line 71: round((edited_tasks / previous_total * 100) if previous_total > 0
\* else 0, 1), in tenths of a percent.
Percentage(edited_tasks, previous_total) ==
    IF previous_total > 0 THEN RoundTenths(edited_tasks, previous_total) ELSE 0

\* The sequences that hold every element of S once: the orders in which a
\* Python set of str may be iterated (it depends on the run's hash seed).
Orders(S) == {o \in [1..Cardinality(S) -> S] : Range(o) = S}

\* ", ".join(S), the elements taken in the order they have in order.
RECURSIVE JoinFrom(_, _, _)
JoinFrom(S, order, i) ==
    IF i > Len(order) THEN ""
    ELSE IF order[i] \notin S THEN JoinFrom(S, order, i + 1)
    ELSE LET rest == JoinFrom(S, order, i + 1)
         IN IF rest = "" THEN order[i] ELSE order[i] \o ", " \o rest

Join(S, order) == JoinFrom(S, order, 1)

\* lines 61-83: the row of one name.
ComparisonRow(current, previous, name, ob_col, order) ==
    LET current_set == TaskSet(current, name, ob_col)
        prev_set == TaskSet(previous, name, ob_col)
    IN <<name,
         Num(NewTasks(current_set, prev_set)),
         Num(OldTasks(current_set, prev_set)),
         Num(Cardinality(prev_set)),
         Num(EditedTasks(current_set, prev_set)),
         Dec1(Percentage(EditedTasks(current_set, prev_set), Cardinality(prev_set))),
         Str(Join(current_set \cap prev_set, order))>>

ComparisonColumns(ob_col) ==
    <<"Naam", "Aantal nieuwe taken", "Aantal oude taken", "Aantal taken vorige week",
      "Aantal bewerkte taken", "Percentage bewerkt", ob_col \o " (oude taken)">>

\* line 65 raises KeyError when previous_df has no column ob_col (line 64
\* cannot: current_df has ob_col, or "OH-order", which every located table has).
CompareRaises(current, previous) ==
    /\ AllNames(current, previous) # <<>>
    /\ ~HasCol(previous, ObCol(current))

\* The identifiers that occur in both tables: the elements of the sets
\* current_set.intersection(prev_set) that line 81 joins.
Identifiers(current, previous) ==
    LET ob_col == ObCol(current)
    IN {Cell(current, r, ob_col).s :
            r \in {q \in 1..Len(current.rows) : IsStr(Cell(current, q, ob_col))}}
       \cap {Cell(previous, r, ob_col).s :
            r \in {q \in 1..Len(previous.rows) : IsStr(Cell(previous, q, ob_col))}}

\* The value returned when nothing is raised; pd.DataFrame([]) has no columns.
compare_tasks_grouped_by_name(current, previous, order) ==
    LET all_names == AllNames(current, previous)
        ob_col == ObCol(current)
    IN [columns |-> IF all_names = <<>> THEN <<>> ELSE ComparisonColumns(ob_col),
        index |-> [i \in 1..Len(all_names) |-> i - 1],
        rows |-> [i \in 1..Len(all_names) |->
                    ComparisonRow(current, previous, all_names[i], ob_col, order)]]

(***************************************************************************)
(* Specification SpecCompare: compare_tasks_grouped_by_name applied to     *)
(* every pair of filtered tables with at most MaxCompareRows rows in all.  *)
(***************************************************************************)
MaxCompareRows == 4

ObligoLabel == "Obligo extern formaat"

\* (assignee, identifier) pairs: two assignees with two identifiers, a row
\* without identifier and a row without assignee.
CompareRowPool ==
    {<<Str("A"), Str("1")>>, <<Str("A"), Str("2")>>, <<Str("B"), Str("1")>>,
     <<Str("B"), Str("2")>>, <<Str("B"), NaN>>, <<NaN, Str("1")>>}

\* Filtered tables with the columns the comparison reads: without an Obligo
\* column (the identifier is the OH-order), and with one.
CompareTables(n) ==
    [columns : {<<"Naam", "OH-order">>},
     index : {[i \in 1..n |-> i - 1]},
     rows : [1..n -> CompareRowPool]]
    \cup
    [columns : {<<"Naam", "OH-order", ObligoLabel>>},
     index : {[i \in 1..n |-> i - 1]},
     rows : [1..n -> {<<r[1], Str("4500"), r[2]>> : r \in CompareRowPool}]]

InitCompare ==
    /\ pc = "compare"
    /\ \E n \in 0..MaxCompareRows : \E m \in 0..(MaxCompareRows - n) :
          /\ filtered_df \in CompareTables(n)
          /\ combined_prev_df \in CompareTables(m)
    /\ comparison_df = None
    /\ aggregated_df = None
    /\ df = None /\ df_before = None /\ apply_w_filter = FALSE /\ refiltered_df = None
    /\ LocateIdle /\ ExcelIdle /\ MainIdle

\* comparison_df = compare_tasks_grouped_by_name(filtered_df, combined_prev_df)
Compare ==
    /\ pc = "compare"
    /\ ~CompareRaises(filtered_df, combined_prev_df)
    /\ \E order \in Orders(Identifiers(filtered_df, combined_prev_df)) :
          comparison_df' = compare_tasks_grouped_by_name(filtered_df, combined_prev_df, order)
    /\ pc' = "compared"
    /\ UNCHANGED <<locateVars, filterVars, aggregated_df, combined_prev_df, excelVars, mainVars>>

\* The same call ending in KeyError.
CompareKeyError ==
    /\ pc = "compare"
    /\ CompareRaises(filtered_df, combined_prev_df)
    /\ pc' = "KeyError"
    /\ UNCHANGED <<locateVars, filterVars, reportVars, excelVars, mainVars>>

NextCompare == Compare \/ CompareKeyError

SpecCompare == InitCompare /\ [][NextCompare]_vars

\* The assignee cells of both tables.
Assignees ==
    Range(NaamColumn(filtered_df)) \cup Range(NaamColumn(combined_prev_df))

\* The identifiers of one assignee in a table, read off the table.
IdsOf(t, name) ==
    LET k == ColIndex(t, ObCol(filtered_df))
    IN {t.rows[r][k].s : r \in {q \in 1..Len(t.rows) :
                                  t.rows[q][1] = name /\ name.t = "str" /\ t.rows[q][k].t = "str"}}

RowNew(row) == row[2].d
RowOld(row) == row[3].d
RowPrevTotal(row) == row[4].d
RowEdited(row) == row[5].d
RowPercentage(row) == row[6].d

\* C5 as stated: "Percentage bewerkt" lies in [0, 100] and is 0 exactly when
\* the previous-week total is 0 (percentages are in tenths).
C5_ZeroIffNoPrevious ==
    pc = "compared" =>
        /\ {comparison_df.rows[i][1] : i \in 1..Len(comparison_df.rows)} = Assignees
        /\ \A i \in 1..Len(comparison_df.rows) :
              /\ 0 <= RowPercentage(comparison_df.rows[i])
              /\ RowPercentage(comparison_df.rows[i]) <= 1000
              /\ RowPercentage(comparison_df.rows[i]) = 0
                    <=> RowPrevTotal(comparison_df.rows[i]) = 0

\* C5 as amended: "Percentage bewerkt" lies in [0, 100] and is 0 whenever the
\* previous-week total is 0.
C5_RangeAndZeroWithoutPrevious ==
    pc = "compared" =>
        /\ {comparison_df.rows[i][1] : i \in 1..Len(comparison_df.rows)} = Assignees
        /\ \A i \in 1..Len(comparison_df.rows) :
              /\ 0 <= RowPercentage(comparison_df.rows[i])
              /\ RowPercentage(comparison_df.rows[i]) <= 1000
              /\ RowPrevTotal(comparison_df.rows[i])
                    = Cardinality(IdsOf(combined_prev_df, comparison_df.rows[i][1]))
              /\ RowPrevTotal(comparison_df.rows[i]) = 0
                    => RowPercentage(comparison_df.rows[i]) = 0

\* One assignee with a new task and no previous ones, another who had two
\* tasks of which one is gone.
C5_Witness ==
    /\ pc = "compared"
    /\ \E i, j \in 1..Len(comparison_df.rows) :
          /\ RowPrevTotal(comparison_df.rows[i]) = 0
          /\ RowNew(comparison_df.rows[i]) = 1
          /\ RowPercentage(comparison_df.rows[i]) = 0
          /\ RowPrevTotal(comparison_df.rows[j]) = 2
          /\ RowEdited(comparison_df.rows[j]) = 1
          /\ RowPercentage(comparison_df.rows[j]) = 500

\* Every assignee has the same identifier set in both tables.
SameTaskSets ==
    \A name \in Assignees : IdsOf(filtered_df, name) = IdsOf(combined_prev_df, name)

\* C6: when the previous table has the same identifier set per assignee as
\* the current one, every row has 0 new tasks, 0 edited tasks and as many
\* retained tasks as the previous-week total.
C6_IdenticalSets ==
    (pc = "compared" /\ SameTaskSets) =>
        /\ {comparison_df.rows[i][1] : i \in 1..Len(comparison_df.rows)} = Assignees
        /\ \A i \in 1..Len(comparison_df.rows) :
              /\ RowNew(comparison_df.rows[i]) = 0
              /\ RowEdited(comparison_df.rows[i]) = 0
              /\ RowOld(comparison_df.rows[i]) = RowPrevTotal(comparison_df.rows[i])
              /\ RowPrevTotal(comparison_df.rows[i])
                    = Cardinality(IdsOf(combined_prev_df, comparison_df.rows[i][1]))

\* Two assignees with tasks, the same sets in both weeks, the two tables not
\* the same table.
C6_Witness ==
    /\ pc = "compared"
    /\ SameTaskSets
    /\ filtered_df # combined_prev_df
    /\ \E i, j \in 1..Len(comparison_df.rows) :
          /\ i # j
          /\ RowPrevTotal(comparison_df.rows[i]) > 0
          /\ RowPrevTotal(comparison_df.rows[j]) > 0

(***************************************************************************)
(* create_combined_excel_file                                              *)
(***************************************************************************)

\* line 175: the longest sheet name the workbook format takes.
SheetNameLimit == 31

\* line 175: valid_name = name if len(name) <= 31 else name[:31]
ValidName(name) == IF Len(name) <= SheetNameLimit THEN name ELSE SubSeq(name, 1, SheetNameLimit)

\* lines 103-104: write_sheet(df, sheet_name) hands the table to the writer
\* under that sheet name.
WriteSheet(t, sheet_name) == [sheet_name |-> sheet_name, df |-> t]

\* lines 173-176: one write_sheet per entry of dict_per_name, in dict order
\* (a dict is the record [dict |-> <<name, group>> pairs in insertion order]).
PerNameSheets(dict_per_name) ==
    [i \in 1..Len(dict_per_name) |->
        WriteSheet(dict_per_name[i][2], ValidName(dict_per_name[i][1]))]

\* lines 171-180: the write_sheet calls made, in order.
create_combined_excel_file(everything_df, dict_per_name, aggregated, comparison, everything, per_name, aggregate, compare) ==
    (IF everything /\ everything_df # None
        THEN <<WriteSheet(everything_df, "AllesBijElkaar")>> ELSE <<>>)
    \o (IF per_name /\ dict_per_name # None
        THEN PerNameSheets(dict_per_name.dict) ELSE <<>>)
    \o (IF aggregate /\ aggregated # None
        THEN <<WriteSheet(aggregated, "GegroepeerdOverzicht")>> ELSE <<>>)
    \o (IF compare /\ comparison # None
        THEN <<WriteSheet(comparison, "Vergelijking")>> ELSE <<>>)

(***************************************************************************)
(* Specification SpecExcel: create_combined_excel_file applied to every    *)
(* combination of requested outputs and every set of assignee names of     *)
(* SheetNamePool.                                                          *)
(***************************************************************************)
SheetNamePool ==
    {"Al", "Bob", "AllesBijElkaar", "Vergelijking",
     "Johannes Cornelis van der Heijde", "Johannes Cornelis van der Heijdt"}

\* A one-row table of one assignee.
TableOf(name) ==
    [columns |-> <<"Naam">>, index |-> <<0>>, rows |-> <<<<Str(name)>>>>]

\* groups_dict for a set of names: the groups in key order.
DictOf(names) ==
    LET keys == SortedSeq(names)
    IN [i \in 1..Len(keys) |-> <<keys[i], TableOf(keys[i])>>]

SomeTable == TableOf("Al")

InitExcel ==
    /\ pc = "excel"
    /\ combined_df \in {None, SomeTable}
    /\ groups_dict \in {None} \cup {[dict |-> DictOf(names)] : names \in SUBSET SheetNamePool}
    /\ aggregated_df \in {None, SomeTable}
    /\ comparison_df \in {None, SomeTable}
    /\ download_everything \in BOOLEAN
    /\ download_per_name \in BOOLEAN
    /\ download_aggregated \in BOOLEAN
    /\ download_comparison \in BOOLEAN
    /\ combined_excel = None
    /\ combined_prev_df = None
    /\ LocateIdle /\ FilterIdle /\ MainIdle

\* combined_excel = create_combined_excel_file(...)
CreateExcel ==
    /\ pc = "excel"
    /\ combined_excel' =
          [sheets |-> create_combined_excel_file(
              combined_df, groups_dict, aggregated_df, comparison_df,
              download_everything, download_per_name,
              download_aggregated, download_comparison)]
    /\ pc' = "written"
    /\ UNCHANGED <<locateVars, filterVars, reportVars, combined_df, groups_dict,
                   download_everything, download_per_name, download_aggregated,
                   download_comparison, mainVars>>

NextExcel == CreateExcel

SpecExcel == InitExcel /\ [][NextExcel]_vars

\* C10: every sheet name written into one document is at most 31 characters
\* long and no two sheets written have the same name.
C10_SheetNamesValid ==
    pc = "written" =>
        /\ \A i \in 1..Len(combined_excel.sheets) :
              Len(combined_excel.sheets[i].sheet_name) <= 31
        /\ \A i, j \in 1..Len(combined_excel.sheets) :
              combined_excel.sheets[i].sheet_name = combined_excel.sheets[j].sheet_name
                 => i = j

(***************************************************************************)
(* process_filtered_data and the helpers of main()                         *)
(***************************************************************************)

\* df[selected_cols]: the columns named, in that order.
Project(t, cols) ==
    [columns |-> cols,
     index |-> t.index,
     rows |-> [r \in 1..Len(t.rows) |-> [k \in 1..Len(cols) |-> Cell(t, r, cols[k])]]]

\* The row r of t laid out on the columns cols, NaN where t has no such column.
AlignRow(t, r, cols) ==
    [k \in 1..Len(cols) |-> IF HasCol(t, cols[k]) THEN Cell(t, r, cols[k]) ELSE NaN]

RECURSIVE AllColumns(_)
AllColumns(tables) ==
    IF tables = <<>> THEN <<>> ELSE tables[1].columns \o AllColumns(Tail(tables))

RECURSIVE AlignedRows(_, _)
AlignedRows(tables, cols) ==
    IF tables = <<>> THEN <<>>
    ELSE [r \in 1..Len(tables[1].rows) |-> AlignRow(tables[1], r, cols)]
         \o AlignedRows(Tail(tables), cols)

\* pd.concat(tables, ignore_index=True): the union of the columns in order of
\* first appearance, the rows one table after the other, a fresh index.
Concat(tables) ==
    LET cols == FirstAppearance(AllColumns(tables))
        rows == AlignedRows(tables, cols)
    IN [columns |-> cols, index |-> [i \in 1..Len(rows) |-> i - 1], rows |-> rows]

\* line 33: df_filtered.groupby("Naam") raises KeyError without that column.
ProcessRaises(t, cols) == "Naam" \notin Range(cols)

\* lines 29-36 (per_naam=True): the groups in key order, and their
\* concatenation starting from an empty table of the selected columns.
process_filtered_data(t, cols) ==
    LET df_filtered == Project(t, cols)
        keys == GroupKeys(df_filtered, "Naam")
        groups == [i \in 1..Len(keys) |->
                     SelectRows(df_filtered, GroupRows(df_filtered, "Naam", keys[i]))]
        empty == [columns |-> cols, index |-> <<>>, rows |-> <<>>]
    IN [combined_df |-> Concat(<<empty>> \o groups),
        grouped_dfs |-> [dict |-> [i \in 1..Len(keys) |-> <<keys[i], groups[i]>>]]]

\* col.replace("\n", " ")
RECURSIVE ReplaceNewlines(_)
ReplaceNewlines(label) ==
    IF label = "" THEN ""
    ELSE (IF CharAt(label, 1) = "\n" THEN " " ELSE CharAt(label, 1))
         \o ReplaceNewlines(SubSeq(label, 2, Len(label)))

\* app.py lines 61 and 121: df.columns = [col.replace("\n", " ") for col in df.columns]
NormalizeColumns(t) ==
    [t EXCEPT !.columns = [i \in 1..Len(t.columns) |-> ReplaceNewlines(t.columns[i])]]

\* app.py lines 41-49
RequiredColumns ==
    {"OH-planningsgroep", "Naam", "Status", "Omschrijving middel", "Verantw. Werkplek",
     "Leverdatum", "OH-order"}

\* app.py lines 112-123 for one previous-week file: the filtered table, or
\* None when no table is found.
PrevFiltered(file, flag) ==
    LET prev_df == find_table_starting_from_columns(file.grid, RequiredColumns)
    IN IF prev_df = None THEN None ELSE apply_filters(NormalizeColumns(prev_df), flag)

\* app.py lines 102-123: prev_dfs after the loop over the files.
RECURSIVE PrevDfs(_, _)
PrevDfs(files, flag) ==
    IF files = <<>> THEN <<>>
    ELSE (IF PrevFiltered(files[1], flag) = None THEN <<>>
          ELSE <<PrevFiltered(files[1], flag)>>)
         \o PrevDfs(Tail(files), flag)

Error(text) == [kind |-> "error", text |-> text]
Warning(text) == [kind |-> "warning", text |-> text]
Success(text) == [kind |-> "success", text |-> text]

\* app.py line 118, one per file in which no table is found.
PrevErrors(files) ==
    {Error("Geen tabel gevonden in het bestand van vorige week: " \o files[i].name) :
        i \in {j \in 1..Len(files) :
                 find_table_starting_from_columns(files[j].grid, RequiredColumns) = None}}

\* app.py line 165: st.error(f"Er trad een fout op: {e}") for a KeyError.
KeyErrorMessage(key) == Error("Er trad een fout op: '" \o key \o "'")

\* app.py line 165 for the AttributeError of Series.str.
AttributeErrorMessage ==
    Error("Er trad een fout op: Can only use .str accessor with string values!")

\* app.py line 141 with compare_files in the place of download_comparison.
NoOutputRequested(everything, per_name, aggregate, compare) ==
    ~(everything \/ per_name \/ aggregate \/ compare_files)

\* app.py line 141: not (download_everything or download_per_name or
\* download_aggregated or download_comparison)
NoOutputSelected(everything, per_name, aggregate, compare) ==
    ~(everything \/ per_name \/ aggregate \/ compare)

(***************************************************************************)
(* Specification SpecMain: one run of main() on an uploaded file.          *)
(* The sheet chosen in a file (lines 32-39, 104-111) is the file's grid.    *)
(***************************************************************************)
MaxPrevFiles == 2

HeaderA ==
    <<Str("OH-planningsgroep"), Str("Naam"), Str("Status"), Str("Omschrijving middel"),
      Str("Verantw. Werkplek"), Str("Leverdatum"), Str("OH-order")>>
HeaderB == HeaderA \o <<Str("Obligo extern\nformaat")>>
TitleRow == <<Str("Obligo rapport"), Str("Naam"), Str("Status"), NaN, NaN, NaN, NaN>>

CurrentRowsA ==
    <<<<Str("PG1"), Str("Bob"), Str("VRIJ"), Str("pomp"), Str("VKS-1"), Ts(4), Str("101")>>,
      <<Str("PG1"), Str("Al"), Str("OPEN"), Str("klep 12w"), Str("VKS-2"),
        Str("2024-01-03"), Str("102")>>,
      <<Str("PG1"), NaN, Str("OPEN"), NaN, Str("VKS-1"), Ts(5), Str("103")>>,
      <<Str("PG2"), Str("Bob"), Str("TECO"), Str("klep"), Str("VKS-1"), Ts(4), Str("104")>>>>
PreviousRowsA ==
    <<<<Str("PG1"), Str("Bob"), Str("VRIJ"), Str("pomp"), Str("VKS-1"), Ts(4), Str("101")>>,
      <<Str("PG1"), Str("Bob"), Str("OPEN"), Str("klep"), Str("VKS-1"), Ts(3), Str("100")>>,
      <<Str("PG1"), Str("Cor"), Str("OPEN"), Str("klep"), Str("VKS-2"), Ts(6), Str("099")>>>>

\* The rows of a grid, each with one more cell.
WithColumn(rows, cells) == [i \in 1..Len(rows) |-> Append(rows[i], cells[i])]

CurrentFiles ==
    {[name |-> "leeg.xlsx", grid |-> <<TitleRow, CurrentRowsA[1]>>],
     [name |-> "week2_kort.xlsx", grid |-> <<HeaderA, CurrentRowsA[3]>>],
     [name |-> "week2.xlsx", grid |-> <<TitleRow, HeaderA>> \o CurrentRowsA],
     [name |-> "week2_obligo.xlsx",
      grid |-> <<HeaderB>> \o WithColumn(CurrentRowsA,
                  <<Str("9001"), Str("9002"), Str("9003"), Str("9004")>>)]}

PreviousFilePool ==
    {[name |-> "vorige_leeg.xlsx", grid |-> <<TitleRow>>],
     [name |-> "week1.xlsx", grid |-> <<HeaderA>> \o PreviousRowsA],
     [name |-> "week1_obligo.xlsx",
      grid |-> <<TitleRow \o <<NaN>>, HeaderB>>
               \o WithColumn(PreviousRowsA, <<Str("9001"), Str("9000"), NaN>>)]}

PreviousFileLists == UNION {[1..n -> PreviousFilePool] : n \in 0..MaxPrevFiles}

\* The user's ticks: no column, every column, every column but "Naam", or
\* the assignee and the order number only.
ColumnChoices(columns) ==
    {{}, Range(columns), Range(columns) \ {"Naam"}, {"Naam", "OH-order"}}

InitMain ==
    /\ pc = "upload"
    /\ LocateIdle /\ FilterIdle /\ ReportIdle /\ ExcelIdle /\ MainIdle

\* app.py lines 29-61: the uploaded file is searched for the table.
MainLocate ==
    /\ pc = "upload"
    /\ \E file \in CurrentFiles :
       \E found \in {find_table_starting_from_columns(file.grid, RequiredColumns)} :
          /\ sheet_data' = file.grid
          /\ required_columns' = RequiredColumns
          /\ table' = found
          /\ IF found = None
                THEN /\ messages' = messages \cup
                           {Error("Geen tabel gevonden met de vereiste kolommen.")}
                     /\ pc' = "done"
                     /\ df' = df
                ELSE /\ df' = NormalizeColumns(found)
                     /\ messages' = messages
                     /\ pc' = "columns"
    /\ trail' = Append(trail, "upload")
    /\ UNCHANGED <<df_before, apply_w_filter, filtered_df, refiltered_df, reportVars,
                   excelVars, selected_cols, compare_files, previous_files,
                   download_offered>>

\* app.py lines 77-85: the column checkboxes.
MainSelectColumns ==
    /\ pc = "columns"
    /\ \E choice \in ColumnChoices(df.columns) :
          selected_cols' = SelectSeq(df.columns, LAMBDA col : col \in choice)
    /\ IF selected_cols' = <<>>
          THEN /\ messages' = messages \cup
                     {Warning("Je hebt geen kolommen geselecteerd.")}
               /\ pc' = "done"
          ELSE /\ messages' = messages
               /\ pc' = "filter"
    /\ trail' = Append(trail, "columns")
    /\ UNCHANGED <<locateVars, filterVars, reportVars, excelVars, compare_files,
                   previous_files, download_offered>>

\* app.py lines 87-91: the filter, the grouping and the aggregation.
MainFilter ==
    /\ pc = "filter"
    /\ \E flag \in BOOLEAN : \E filtered \in {apply_filters(df, flag)} :
          /\ apply_w_filter' = flag
          /\ df_before' = df
          /\ df' = ConvertLeverdatum(df)
          /\ IF FiltersRaise(df, flag)
                THEN /\ messages' = messages \cup {AttributeErrorMessage}
                     /\ pc' = "done"
                     /\ trail' = Append(trail, "exception")
                     /\ UNCHANGED <<filtered_df, combined_df, groups_dict, aggregated_df>>
                ELSE IF ProcessRaises(filtered, selected_cols)
                THEN /\ filtered_df' = filtered
                     /\ messages' = messages \cup {KeyErrorMessage("Naam")}
                     /\ pc' = "done"
                     /\ trail' = Append(trail, "exception")
                     /\ UNCHANGED <<combined_df, groups_dict, aggregated_df>>
                ELSE /\ filtered_df' = filtered
                     /\ \E processed \in {process_filtered_data(filtered, selected_cols)} :
                           /\ combined_df' = processed.combined_df
                           /\ groups_dict' = processed.grouped_dfs
                     /\ aggregated_df' = create_aggregated_data(filtered)
                     /\ messages' = messages
                     /\ pc' = "outputs"
                     /\ trail' = Append(trail, "filter")
    /\ UNCHANGED <<locateVars, refiltered_df, combined_prev_df, comparison_df,
                   download_everything, download_per_name, download_aggregated,
                   download_comparison, combined_excel, selected_cols, compare_files,
                   previous_files, download_offered>>

\* app.py lines 93-98 and 137-139: the output checkboxes.
MainChooseOutputs ==
    /\ pc = "outputs"
    /\ download_everything' \in BOOLEAN
    /\ download_per_name' \in BOOLEAN
    /\ download_aggregated' \in BOOLEAN
    /\ compare_files' \in BOOLEAN
    /\ pc' = IF compare_files' THEN "previous" ELSE "assemble"
    /\ trail' = Append(trail, "outputs")
    /\ UNCHANGED <<locateVars, filterVars, reportVars, combined_df, groups_dict,
                   download_comparison, combined_excel, selected_cols, previous_files,
                   messages, download_offered>>

\* app.py lines 99-136: the previous-week files and the comparison.
MainPrevious ==
    /\ pc = "previous"
    /\ \E files \in PreviousFileLists :
       \E prev_dfs \in {PrevDfs(files, apply_w_filter)} :
       \E combined \in {Concat(prev_dfs)} :
          /\ previous_files' = files
          /\ IF files = <<>>
             THEN /\ messages' = messages \cup
                        {Warning("Upload ten minste een bestand van vorige week.")}
                  /\ pc' = "assemble"
                  /\ trail' = Append(trail, "previous")
                  /\ UNCHANGED <<combined_prev_df, comparison_df, download_comparison>>
             ELSE IF prev_dfs = <<>>
             THEN /\ messages' = messages \cup PrevErrors(files)
                        \cup {Error("Geen geldige vorige week bestanden.")}
                  /\ pc' = "assemble"
                  /\ trail' = Append(trail, "previous")
                  /\ UNCHANGED <<combined_prev_df, comparison_df, download_comparison>>
             ELSE IF CompareRaises(filtered_df, combined)
             THEN /\ combined_prev_df' = combined
                  /\ messages' = messages \cup PrevErrors(files)
                        \cup {KeyErrorMessage(ObCol(filtered_df))}
                  /\ pc' = "done"
                  /\ trail' = Append(trail, "exception")
                  /\ UNCHANGED <<comparison_df, download_comparison>>
             ELSE /\ combined_prev_df' = combined
                  /\ \E order \in Orders(Identifiers(filtered_df, combined)) :
                        comparison_df' =
                           compare_tasks_grouped_by_name(filtered_df, combined, order)
                  /\ messages' = messages \cup PrevErrors(files)
                        \cup {Success("Vergelijking gemaakt!")}
                  /\ download_comparison' = TRUE
                  /\ pc' = "assemble"
                  /\ trail' = Append(trail, "previous")
    /\ UNCHANGED <<locateVars, filterVars, aggregated_df, combined_df, groups_dict,
                   download_everything, download_per_name, download_aggregated,
                   combined_excel, selected_cols, compare_files, download_offered>>

\* app.py lines 141-163: the workbook and the download button.
MainAssemble ==
    /\ pc = "assemble"
    /\ IF NoOutputSelected(download_everything, download_per_name, download_aggregated,
                           download_comparison)
          THEN /\ messages' = messages \cup {Warning("Selecteer ten minste een output.")}
               /\ UNCHANGED <<combined_excel, download_offered>>
          ELSE /\ combined_excel' =
                     [sheets |-> create_combined_excel_file(
                         IF download_everything THEN combined_df ELSE None,
                         IF download_per_name THEN groups_dict ELSE None,
                         IF download_aggregated THEN aggregated_df ELSE None,
                         IF download_comparison THEN comparison_df ELSE None,
                         download_everything, download_per_name,
                         download_aggregated, download_comparison)]
               /\ download_offered' = TRUE
               /\ messages' = messages
    /\ pc' = "done"
    /\ trail' = Append(trail, "assemble")
    /\ UNCHANGED <<locateVars, filterVars, reportVars, combined_df, groups_dict,
                   download_everything, download_per_name, download_aggregated,
                   download_comparison, selected_cols, compare_files, previous_files>>

NextMain ==
    \/ MainLocate
    \/ MainSelectColumns
    \/ MainFilter
    \/ MainChooseOutputs
    \/ MainPrevious
    \/ MainAssemble

SpecMain == InitMain /\ [][NextMain]_vars

\* The sheet names of the document produced, none when there is no document.
SheetNames ==
    IF combined_excel = None THEN {}
    ELSE {combined_excel.sheets[i].sheet_name : i \in 1..Len(combined_excel.sheets)}

\* The previous-week files in which a table is found, in upload order.
LocatedFiles ==
    SelectSeq(previous_files,
              LAMBDA f : \E i \in 1..Len(f.grid) : RowHasAll(f.grid[i], RequiredColumns))

\* The filtered rows of the located previous-week files, as one table.
LocatedRows ==
    Concat([i \in 1..Len(LocatedFiles) |->
              apply_filters(NormalizeColumns(
                  find_table_starting_from_columns(LocatedFiles[i].grid, RequiredColumns)),
                  apply_w_filter)])

\* The outputs other than the comparison that were requested are in the
\* document.
OtherOutputsProduced ==
    /\ (download_everything \/ download_per_name \/ download_aggregated)
          => combined_excel # None /\ download_offered
    /\ download_everything => "AllesBijElkaar" \in SheetNames
    /\ download_aggregated => "GegroepeerdOverzicht" \in SheetNames
    /\ download_per_name =>
          \A i \in 1..Len(groups_dict.dict) : ValidName(groups_dict.dict[i][1]) \in SheetNames

\* C7: in a run with comparison requested and previous-week files given,
\* every file in which no table is found is reported by name and adds no
\* rows; with at least one located file the comparison is made over exactly
\* the filtered rows of the located files and the run goes on to the
\* document, which holds the "Vergelijking" sheet; with none the comparison
\* is skipped and the other requested outputs are still produced.
C7_PreviousFilesHandled ==
    (pc = "done" /\ compare_files /\ previous_files # <<>>) =>
        /\ \A i \in 1..Len(previous_files) :
              (\A r \in 1..Len(previous_files[i].grid) :
                  ~RowHasAll(previous_files[i].grid[r], RequiredColumns))
              => Error("Geen tabel gevonden in het bestand van vorige week: "
                       \o previous_files[i].name) \in messages
        /\ IF LocatedFiles # <<>>
              THEN /\ combined_prev_df = LocatedRows
                   /\ comparison_df # None
                   /\ \E order \in Orders(Identifiers(filtered_df, LocatedRows)) :
                         comparison_df
                            = compare_tasks_grouped_by_name(filtered_df, LocatedRows, order)
                   /\ download_comparison
                   /\ download_offered
                   /\ "Vergelijking" \in SheetNames
                   /\ OtherOutputsProduced
              ELSE /\ comparison_df = None
                   /\ "Vergelijking" \notin SheetNames
                   /\ Error("Geen geldige vorige week bestanden.") \in messages
                   /\ OtherOutputsProduced

\* The column checkboxes were evaluated and none was ticked.
ZeroColumnsSelected == "columns" \in Range(trail) /\ selected_cols = <<>>

\* All four output choices have been settled and none is selected.
ZeroOutputsSelected ==
    /\ \/ "outputs" \in Range(trail) /\ ~compare_files
       \/ "previous" \in Range(trail)
    /\ ~(download_everything \/ download_per_name \/ download_aggregated
         \/ download_comparison)

\* C8: in a run in which zero columns are selected, or none of the four
\* outputs ends up selected, create_combined_excel_file is never called and
\* nothing is offered for download, and the run ends with a warning.
C8_NoDocumentWithoutSelection ==
    /\ ZeroColumnsSelected =>
          /\ combined_excel = None
          /\ ~download_offered
          /\ Warning("Je hebt geen kolommen geselecteerd.") \in messages
          /\ pc = "done"
    /\ ZeroOutputsSelected =>
          /\ combined_excel = None
          /\ ~download_offered
          /\ pc \in {"assemble", "done"}
          /\ pc = "done" => Warning("Selecteer ten minste een output.") \in messages

\* A run in which only the comparison was asked for and no previous-week
\* file held a table, so that no output ended up selected.
C8_Witness ==
    /\ pc = "done"
    /\ ZeroOutputsSelected
    /\ compare_files
    /\ previous_files # <<>>
    /\ selected_cols # <<>>

====
